---- MODULE Spec2Model ----
(***************************************************************************)
(* Model of the stopwatch service of MabelAssistantBE                      *)
(* (src/src/stopwatch/stopwatch.service.ts).                               *)
(*                                                                         *)
(* The service is stateless: all state lives in the stopwatch table.       *)
(* Every handler is an async function, so a call is a sequence of steps    *)
(* separated by its awaits:                                                *)
(*   idle   no request is being served in this slot                        *)
(*   check  the store has executed the repository read (findOne); next is  *)
(*          the continuation after it: the null / isRunning guards,        *)
(*          the changes to the local entity, the clock reads of this part  *)
(*   save   the repository write (save / softDelete) is executed           *)
(*   dto    the continuation after the write: toDto, with its clock read   *)
(*   done   the call has returned or thrown                                *)
(* findAll has one await only: the find, then the map over toDto.          *)
(* Steps of different calls interleave freely: nothing in the service      *)
(* takes a lock or opens a transaction.  Each repository operation is      *)
(* atomic.  Time is in milliseconds, elapsed in seconds.                   *)
(***************************************************************************)
EXTENDS Integers, Sequences, FiniteSets, TLC

\* ---------------------------------------------------------------- bounds
MaxCalls == 2          \* calls that can be in flight at once
MaxStopwatches == 2    \* identifiers the store hands out
MaxTicks == 2          \* the clock ranges over 0 .. MaxTicks * TickMs
MaxSkews == 1          \* times the wall clock is set back
MaxOps == 5            \* requests received in a run

\* ------------------------------------------------------------- constants
MsPerSec == 1000                 \* getTime() difference / 1000
TickMs == MsPerSec \div 2        \* granularity of the modelled clock
NULL == 0 - 1                    \* startTime: null (instants are >= 0)

Calls == 1 .. MaxCalls
Ids == 1 .. MaxStopwatches
CreateNames == {"a"}             \* names given to create
PatchNames == {"b"}              \* names given to update
ElapsedInputs == {0 - 1, 0, 2}   \* integers accepted by @IsInt()
BothInputs == {2}                \* elapsed of the patches that also rename

VARIABLES
    store,    \* the stopwatch table: identifier -> row
    nextId,   \* the identifier the next insert is given
    clock,    \* the wall clock read by new Date(), in milliseconds
    skews,    \* how often the wall clock has been set back
    req,      \* per request slot: the call being served and where it stands
    issued    \* requests received so far

vars == <<store, nextId, clock, skews, req, issued>>

\* A row of the stopwatch table / a Stopwatch entity held by a call.
\* id = 0 stands for "no entity" (findOne returned null).
Stopwatch(id, name, isRunning, elapsed, startTime, deleted) ==
    [id |-> id, name |-> name, isRunning |-> isRunning, elapsed |-> elapsed,
     startTime |-> startTime, deleted |-> deleted]

NoStopwatch == Stopwatch(0, "", FALSE, 0, NULL, FALSE)

\* The read view returned to callers.
StopwatchDto(id, name, elapsed, isRunning) ==
    [id |-> id, name |-> name, elapsed |-> elapsed, isRunning |-> isRunning]

NoDto == StopwatchDto(0, "", 0, FALSE)

\* The body of PATCH /stopwatch/:id after whitelisting: both fields optional.
UpdateStopwatchDto ==
    { [hasName |-> TRUE, name |-> n, hasElapsed |-> FALSE, elapsed |-> 0] : n \in PatchNames }
    \cup { [hasName |-> FALSE, name |-> "", hasElapsed |-> TRUE, elapsed |-> e] : e \in ElapsedInputs }
    \cup { [hasName |-> TRUE, name |-> n, hasElapsed |-> TRUE, elapsed |-> e] :
             n \in PatchNames, e \in BothInputs }

NoPatch == [hasName |-> FALSE, name |-> "", hasElapsed |-> FALSE, elapsed |-> 0]

\* rows: the entities find returned to findAll; views: the list it returns.
Idle == [op |-> "none", id |-> 0, patch |-> NoPatch, pc |-> "idle",
         sw |-> NoStopwatch, kind |-> "none", view |-> NoDto,
         rows |-> <<>>, views |-> <<>>]

Mutators == {"start", "stop", "update", "delete"}

\* A row exists once create has inserted it.
Exists(id) == id \in Ids /\ id < nextId

\* findOne / find skip soft-deleted rows.
Live(id) == Exists(id) /\ ~store[id].deleted

Init ==
    /\ store = [i \in Ids |-> NoStopwatch]
    /\ nextId = 1
    /\ clock = 0
    /\ skews = 0
    /\ issued = 0
    /\ req = [p \in Calls |-> Idle]

\* ------------------------------------------------------- pure functions

\* calculateElapsed: Math.floor(elapsed + (currentTime - startTime) / 1000),
\* computed exactly; \div rounds towards minus infinity, as Math.floor does.
\* A running entity without startTime uses currentTime for it.
calculateElapsedRounded(stopwatch, currentTime) ==
    IF ~stopwatch.isRunning
    THEN stopwatch.elapsed
    ELSE LET startTime == IF stopwatch.startTime # NULL
                          THEN stopwatch.startTime ELSE currentTime
             timeDifference == currentTime - startTime
         IN  (stopwatch.elapsed * MsPerSec + timeDifference + TickMs) \div MsPerSec

calculateElapsedCeil(stopwatch, currentTime) ==
    IF ~stopwatch.isRunning
    THEN stopwatch.elapsed
    ELSE LET startTime == IF stopwatch.startTime # NULL
                          THEN stopwatch.startTime ELSE currentTime
             timeDifference == currentTime - startTime
         IN  (stopwatch.elapsed * MsPerSec + timeDifference + MsPerSec - 1) \div MsPerSec

calculateElapsed(stopwatch, currentTime) ==
    IF ~stopwatch.isRunning
    THEN stopwatch.elapsed
    ELSE LET startTime == IF stopwatch.startTime # NULL
                          THEN stopwatch.startTime ELSE currentTime
             timeDifference == currentTime - startTime
         IN  (stopwatch.elapsed * MsPerSec + timeDifference) \div MsPerSec

toDto(stopwatch, currentTime) ==
    StopwatchDto(stopwatch.id, stopwatch.name,
                 calculateElapsed(stopwatch, currentTime), stopwatch.isRunning)

\* start: the guard of line 83 and the assignments of lines 86-87.
StartNeverRejects(stopwatch) == FALSE

StartRejects(stopwatch) == stopwatch.isRunning

StartEntity(stopwatch, now) ==
    [stopwatch EXCEPT !.isRunning = TRUE, !.startTime = now]

\* stop: the guard of line 102 and the assignments of lines 106-108.
StopNeverRejects(stopwatch) == FALSE

StopRejects(stopwatch) == ~stopwatch.isRunning

StopEntityKeepsStartTime(stopwatch, now) ==
    [stopwatch EXCEPT !.elapsed = calculateElapsed(stopwatch, now),
                      !.isRunning = FALSE]

StopEntityStaysRunning(stopwatch, now) ==
    [stopwatch EXCEPT !.elapsed = calculateElapsed(stopwatch, now),
                      !.startTime = NULL]

StopEntity(stopwatch, now) ==
    [stopwatch EXCEPT !.elapsed = calculateElapsed(stopwatch, now),
                      !.isRunning = FALSE, !.startTime = NULL]

\* update: `updateDto.elapsed && stopwatch.isRunning` tests the VALUE of
\* elapsed for truthiness: an absent elapsed and the number 0 are both falsy.
UpdateRejects(stopwatch, updateDto) ==
    /\ updateDto.hasElapsed /\ updateDto.elapsed # 0
    /\ stopwatch.isRunning

\* { ...stopwatch, ...updateDto }
Patched(stopwatch, updateDto) ==
    [stopwatch EXCEPT
        !.name = IF updateDto.hasName THEN updateDto.name ELSE @,
        !.elapsed = IF updateDto.hasElapsed THEN updateDto.elapsed ELSE @]

\* delete: the guard of line 140.
DeleteAlwaysRejects(stopwatch) == TRUE

DeleteRejects(stopwatch) == stopwatch.isRunning

\* repository.save(entity) of an entity that has an id: the row takes the
\* entity's columns, the soft-delete marker included.
SavedRow(entity) == entity

\* repository.softDelete({ id }): sets the soft-delete marker of the row.
SoftDeletedRow(row) == [row EXCEPT !.deleted = TRUE]

\* The row an insert produces from a CreateStopwatchDto: column defaults.
InsertedRowRunning(id, name) == Stopwatch(id, name, TRUE, 0, NULL, FALSE)

InsertedRow(id, name) == Stopwatch(id, name, FALSE, 0, NULL, FALSE)

\* order: { id: 'ASC' }: the identifiers of S in ascending order.
RECURSIVE OrderByIdDesc(_)
OrderByIdDesc(S) ==
    IF S = {} THEN <<>>
    ELSE LET m == CHOOSE x \in S : \A y \in S : y <= x
         IN  <<m>> \o OrderByIdDesc(S \ {m})

RECURSIVE OrderById(_)
OrderById(S) ==
    IF S = {} THEN <<>>
    ELSE LET m == CHOOSE x \in S : \A y \in S : x <= y
         IN  <<m>> \o OrderById(S \ {m})

\* repository.find({ order: { id: 'ASC' } }): the live rows, ordered.
find ==
    LET ids == OrderById({i \in Ids : Live(i)})
    IN  [k \in 1 .. Len(ids) |-> store[ids[k]]]

\* stopwatches.map((stopwatch) => this.toDto(stopwatch)): one synchronous
\* block, so every toDto of it reads the clock at the same instant.
MapToDto(stopwatches, currentTime) ==
    [k \in 1 .. Len(stopwatches) |-> toDto(stopwatches[k], currentTime)]

\* ---------------------------------------------------------------- clock

\* Wall-clock time passes.
Tick ==
    /\ clock + TickMs <= MaxTicks * TickMs
    /\ clock' = clock + TickMs
    /\ UNCHANGED <<store, nextId, skews, req, issued>>

\* new Date() is the wall clock, which is not monotonic: it can be set back.
ClockStepBack ==
    /\ clock >= TickMs
    /\ skews < MaxSkews
    /\ clock' = clock - TickMs
    /\ skews' = skews + 1
    /\ UNCHANGED <<store, nextId, req, issued>>

\* ---------------------------------------------------------------- calls

PendingCreates == Cardinality({p \in Calls : req[p].op = "create" /\ req[p].pc = "save"})

\* Request slots are interchangeable: a request takes the lowest idle one.
FreeSlot(p) ==
    /\ req[p].pc = "idle"
    /\ \A q \in Calls : q < p => req[q].pc # "idle"

\* POST /stopwatch: the controller hands the validated body to create(),
\* which calls repository.save(createStopwatchDto) at once.
CallCreate(p, name) ==
    /\ FreeSlot(p)
    /\ nextId + PendingCreates <= MaxStopwatches
    /\ req' = [req EXCEPT ![p] = [Idle EXCEPT !.op = "create", !.pc = "save",
                                              !.sw = InsertedRow(0, name)]]
    /\ issued < MaxOps /\ issued' = issued + 1
    /\ UNCHANGED <<store, nextId, clock, skews>>

\* POST /start/:id, POST /stop/:id, PATCH /:id, DELETE /:id: the handler
\* starts with findOne({ where: { id } }), which the store executes: the
\* live row, or null.
FindOne(p, op, id, patch) ==
    /\ FreeSlot(p)
    /\ op \in Mutators
    /\ patch \in IF op = "update" THEN UpdateStopwatchDto ELSE {NoPatch}
    /\ req' = [req EXCEPT ![p] = [Idle EXCEPT !.op = op, !.id = id, !.patch = patch,
                                              !.pc = "check",
                                              !.sw = IF Live(id) THEN store[id]
                                                     ELSE NoStopwatch]]
    /\ issued < MaxOps /\ issued' = issued + 1
    /\ UNCHANGED <<store, nextId, clock, skews>>

\* GET /stopwatch: findAll starts with find, which the store executes.
FindAll(p) ==
    /\ FreeSlot(p)
    /\ req' = [req EXCEPT ![p] = [Idle EXCEPT !.op = "list", !.pc = "dto",
                                              !.rows = find]]
    /\ issued < MaxOps /\ issued' = issued + 1
    /\ UNCHANGED <<store, nextId, clock, skews>>

\* What is left of a call once it has returned or thrown: its outcome.
Done(r, kind, view) ==
    [Idle EXCEPT !.op = r.op, !.id = r.id, !.pc = "done", !.kind = kind, !.view = view]

Throw(p, kind) ==
    req' = [req EXCEPT ![p] = Done(req[p], kind, NoDto)]

\* The continuation of start after findOne (lines 82-88, up to the save).
StartCheck(p) ==
    /\ req[p].pc = "check" /\ req[p].op = "start"
    /\ IF req[p].sw.id = 0 THEN Throw(p, "NotFound")
       ELSE IF StartRejects(req[p].sw) THEN Throw(p, "InvalidState")
       ELSE req' = [req EXCEPT ![p].pc = "save",
                               ![p].sw = StartEntity(req[p].sw, clock)]
    /\ UNCHANGED <<store, nextId, clock, skews, issued>>

\* The continuation of stop after findOne (lines 101-109, up to the save).
StopCheck(p) ==
    /\ req[p].pc = "check" /\ req[p].op = "stop"
    /\ IF req[p].sw.id = 0 THEN Throw(p, "NotFound")
       ELSE IF StopRejects(req[p].sw) THEN Throw(p, "InvalidState")
       ELSE req' = [req EXCEPT ![p].pc = "save",
                               ![p].sw = StopEntity(req[p].sw, clock)]
    /\ UNCHANGED <<store, nextId, clock, skews, issued>>

\* The continuation of update after findOne (lines 122-128, up to the save).
UpdateCheckNoNullGuard(p) ==
    /\ req[p].pc = "check" /\ req[p].op = "update"
    /\ IF UpdateRejects(req[p].sw, req[p].patch) THEN Throw(p, "InvalidState")
       ELSE req' = [req EXCEPT ![p].pc = "save",
                               ![p].sw = Patched(req[p].sw, req[p].patch)]
    /\ UNCHANGED <<store, nextId, clock, skews, issued>>

UpdateCheck(p) ==
    /\ req[p].pc = "check" /\ req[p].op = "update"
    /\ IF req[p].sw.id = 0 THEN Throw(p, "NotFound")
       ELSE IF UpdateRejects(req[p].sw, req[p].patch) THEN Throw(p, "InvalidState")
       ELSE req' = [req EXCEPT ![p].pc = "save",
                               ![p].sw = Patched(req[p].sw, req[p].patch)]
    /\ UNCHANGED <<store, nextId, clock, skews, issued>>

\* The continuation of delete after findOne (lines 139-144, up to softDelete).
DeleteCheck(p) ==
    /\ req[p].pc = "check" /\ req[p].op = "delete"
    /\ IF req[p].sw.id = 0 THEN Throw(p, "NotFound")
       ELSE IF DeleteRejects(req[p].sw) THEN Throw(p, "InvalidState")
       ELSE req' = [req EXCEPT ![p].pc = "save"]
    /\ UNCHANGED <<store, nextId, clock, skews, issued>>

\* The store executes the save of start, stop or update.
SaveIntoFirstRow(p) ==
    /\ req[p].pc = "save" /\ req[p].op \in {"start", "stop", "update"}
    /\ store' = [store EXCEPT ![1] = SavedRow(req[p].sw)]
    /\ req' = [req EXCEPT ![p].pc = "dto"]
    /\ UNCHANGED <<nextId, clock, skews, issued>>

Save(p) ==
    /\ req[p].pc = "save" /\ req[p].op \in {"start", "stop", "update"}
    /\ store' = [store EXCEPT ![req[p].id] = SavedRow(req[p].sw)]
    /\ req' = [req EXCEPT ![p].pc = "dto"]
    /\ UNCHANGED <<nextId, clock, skews, issued>>

\* The store executes the insert of create and assigns the identifier.
CreateSave(p) ==
    /\ req[p].pc = "save" /\ req[p].op = "create"
    /\ nextId <= MaxStopwatches
    /\ store' = [store EXCEPT ![nextId] = InsertedRow(nextId, req[p].sw.name)]
    /\ nextId' = nextId + 1
    /\ req' = [req EXCEPT ![p].pc = "dto", ![p].id = nextId,
                          ![p].sw = InsertedRow(nextId, req[p].sw.name)]
    /\ UNCHANGED <<clock, skews, issued>>

\* The store executes softDelete and delete returns 'ok'.
SoftDelete(p) ==
    /\ req[p].pc = "save" /\ req[p].op = "delete"
    /\ store' = [store EXCEPT ![req[p].id] = SoftDeletedRow(@)]
    /\ req' = [req EXCEPT ![p] = Done(req[p], "ok", NoDto)]
    /\ UNCHANGED <<nextId, clock, skews, issued>>

\* The continuation after the save: toDto of the saved entity.
ToDto(p) ==
    /\ req[p].pc = "dto" /\ req[p].op # "list"
    /\ req' = [req EXCEPT ![p] = Done(req[p], "ok", toDto(req[p].sw, clock))]
    /\ UNCHANGED <<store, nextId, clock, skews, issued>>

\* The continuation of findAll after find: the views of the rows read.
ListDto(p) ==
    /\ req[p].pc = "dto" /\ req[p].op = "list"
    /\ req' = [req EXCEPT ![p] = [Done(req[p], "ok", NoDto) EXCEPT
                                     !.views = MapToDto(req[p].rows, clock)]]
    /\ UNCHANGED <<store, nextId, clock, skews, issued>>

\* The response has been delivered; the slot serves the next request.
Return(p) ==
    /\ req[p].pc = "done"
    /\ req' = [req EXCEPT ![p] = Idle]
    /\ UNCHANGED <<store, nextId, clock, skews, issued>>

Next ==
    \/ Tick
    \/ ClockStepBack
    \/ \E p \in Calls, name \in CreateNames : CallCreate(p, name)
    \/ \E p \in Calls, op \in Mutators, id \in Ids, patch \in UpdateStopwatchDto \cup {NoPatch} :
          FindOne(p, op, id, patch)
    \/ \E p \in Calls : FindAll(p)
    \/ \E p \in Calls : ListDto(p)
    \/ \E p \in Calls : StartCheck(p)
    \/ \E p \in Calls : StopCheck(p)
    \/ \E p \in Calls : UpdateCheck(p)
    \/ \E p \in Calls : DeleteCheck(p)
    \/ \E p \in Calls : Save(p)
    \/ \E p \in Calls : CreateSave(p)
    \/ \E p \in Calls : SoftDelete(p)
    \/ \E p \in Calls : ToDto(p)
    \/ \E p \in Calls : Return(p)

Spec == Init /\ [][Next]_vars

\* ------------------------------------------------- sequential execution

\* No call is in flight.
AllIdle == \A p \in Calls : req[p].pc = "idle"

\* The service with one client that waits for each response before it
\* sends the next request: the same steps, a request only when none is
\* being served.
SeqNext ==
    \/ Tick
    \/ ClockStepBack
    \/ AllIdle /\ \E p \in Calls, name \in CreateNames : CallCreate(p, name)
    \/ AllIdle /\ \E p \in Calls, op \in Mutators, id \in Ids,
                     patch \in UpdateStopwatchDto \cup {NoPatch} :
                        FindOne(p, op, id, patch)
    \/ AllIdle /\ \E p \in Calls : FindAll(p)
    \/ \E p \in Calls : ListDto(p)
    \/ \E p \in Calls : StartCheck(p)
    \/ \E p \in Calls : StopCheck(p)
    \/ \E p \in Calls : UpdateCheck(p)
    \/ \E p \in Calls : DeleteCheck(p)
    \/ \E p \in Calls : Save(p)
    \/ \E p \in Calls : CreateSave(p)
    \/ \E p \in Calls : SoftDelete(p)
    \/ \E p \in Calls : ToDto(p)
    \/ \E p \in Calls : Return(p)

SeqSpec == Init /\ [][SeqNext]_vars

\* ------------------------------------------------------ start-stop cycles

\* The run of stopwatch 1 is in progress: from the clock reading of a
\* start (line 87) to the clock reading of the stop that ends it (line 175
\* called from line 106).
Timing ==
    \/ \E p \in Calls : req[p].op = "start" /\ req[p].pc \in {"save", "dto", "done"}
    \/ /\ Live(1) /\ store[1].isRunning
       /\ \A p \in Calls : req[p].op = "stop" => req[p].pc = "check"

\* One stopwatch, created and then started and stopped in turn by one
\* client, with a monotonic clock that is advanced only while the run is
\* in progress: the clock then reads the true total run time.
CycleNext ==
    \/ Timing /\ Tick
    \/ AllIdle /\ nextId = 1
               /\ \E p \in Calls, name \in CreateNames \cup PatchNames : CallCreate(p, name)
    \/ AllIdle /\ Live(1) /\ ~store[1].isRunning
               /\ \E p \in Calls : FindOne(p, "start", 1, NoPatch)
    \/ AllIdle /\ Live(1) /\ store[1].isRunning
               /\ \E p \in Calls : FindOne(p, "stop", 1, NoPatch)
    \/ \E p \in Calls : StartCheck(p)
    \/ \E p \in Calls : StopCheck(p)
    \/ \E p \in Calls : Save(p)
    \/ \E p \in Calls : CreateSave(p)
    \/ \E p \in Calls : ToDto(p)
    \/ \E p \in Calls : Return(p)

CycleSpec == Init /\ [][CycleNext]_vars

TypeOK ==
    /\ nextId \in 1 .. MaxStopwatches + 1
    /\ clock \in 0 .. MaxTicks * TickMs
    /\ skews \in 0 .. MaxSkews
    /\ issued \in 0 .. MaxOps
    /\ \A p \in Calls : req[p].pc \in {"idle", "check", "save", "dto", "done"}

\* ================================================================ claims

InRun(p) == req[p].pc \in {"check", "save", "dto"}

Found(p) == InRun(p) /\ req[p].sw.id # 0

\* C1: in every reachable state every stopwatch row has isRunning true
\* exactly when its startTime is non-null.
C1_RunningIffStartTime ==
    \A i \in Ids : Exists(i) => (store[i].isRunning <=> store[i].startTime # NULL)

\* A row is running with its startTime set, after an update of it succeeded.
C1_Witness ==
    \E i \in Ids, p \in Calls :
        /\ Exists(i) /\ store[i].isRunning /\ store[i].startTime # NULL
        /\ req[p].pc = "done" /\ req[p].op = "update" /\ req[p].id = i
        /\ req[p].kind = "ok"

\* C2: update on a running stopwatch with patch.elapsed present, whatever
\* its value, fails with InvalidState and writes nothing: such a call never
\* gets past the guard to the save.
C2_ElapsedPatchOnRunningRejected ==
    \A p \in Calls :
        (/\ Found(p) /\ req[p].op = "update"
         /\ req[p].patch.hasElapsed /\ req[p].sw.isRunning)
        => req[p].pc = "check"

\* C3: mutating operations on one identifier are serialized: while a call
\* has validated the row it read and is about to write it, no other
\* mutating call on the same identifier is between its own read and write.
C3_NoInterleavedReadModifyWrite ==
    \A p, q \in Calls :
        (/\ p # q /\ Found(p) /\ Found(q)
         /\ req[p].op \in Mutators /\ req[q].op \in Mutators
         /\ req[p].id = req[q].id)
        => ~(req[p].pc = "save" /\ req[q].pc \in {"check", "save"})

\* C4: of two concurrent start calls on a stopped stopwatch at most one
\* succeeds and startTime is set once: the save of a start never replaces
\* the row of a stopwatch that is already running.
C4_StartTimeSetOnce ==
    [][\A p \in Calls :
          (req[p].op = "start" /\ req[p].pc = "save" /\ req'[p].pc = "dto")
          => (~store[req[p].id].isRunning /\ store[req[p].id].startTime = NULL)]_vars

\* C5: in every reachable state no soft-deleted row has isRunning = true.
C5_NoDeletedRunning ==
    \A i \in Ids : (Exists(i) /\ store[i].deleted) => ~store[i].isRunning

\* C6: a successful stop of a running stopwatch read with elapsed E and
\* start instant S, at instant now, computes E + floor((now - S) / 1000),
\* persists it with isRunning = false and startTime = null, and returns a
\* view whose elapsed is the value it persisted.
C6_StopPersistsElapsed ==
    [][\A p \in Calls :
          req[p].op = "stop" =>
            /\ (req[p].pc = "check" /\ req'[p].pc = "save") =>
                  /\ req'[p].sw.elapsed =
                       req[p].sw.elapsed + ((clock - req[p].sw.startTime) \div MsPerSec)
                  /\ ~req'[p].sw.isRunning
                  /\ req'[p].sw.startTime = NULL
            /\ (req[p].pc = "save" /\ req'[p].pc = "dto") =>
                  /\ store'[req[p].id].elapsed = req[p].sw.elapsed
                  /\ ~store'[req[p].id].isRunning
                  /\ store'[req[p].id].startTime = NULL
            /\ (req[p].pc = "dto" /\ req'[p].pc = "done") =>
                  /\ req'[p].kind = "ok"
                  /\ req'[p].view.elapsed = req[p].sw.elapsed
                  /\ ~req'[p].view.isRunning]_vars

\* After create, start, one second, stop: the stop returned elapsed 1 and
\* the row holds it, stopped.
C6_Witness ==
    \E p \in Calls :
        /\ req[p].pc = "done" /\ req[p].op = "stop" /\ req[p].kind = "ok"
        /\ issued = 3
        /\ req[p].view.elapsed = 1
        /\ store[req[p].id].elapsed = 1
        /\ ~store[req[p].id].isRunning /\ store[req[p].id].startTime = NULL

\* C7: a successful start returns a view with isRunning = true whose
\* elapsed equals the stored elapsed, however long the save takes.
C7_StartViewEqualsStored ==
    [][\A p \in Calls :
          (req[p].op = "start" /\ req[p].pc = "dto" /\ req'[p].pc = "done")
          => (/\ req'[p].view.isRunning
              /\ req'[p].view.elapsed = req[p].sw.elapsed)]_vars

\* C8: the elapsed computation never returns less than the stored elapsed:
\* whenever a call is about to compute it (the view after a save, the value
\* stop persists), the result at the current instant is at least the
\* entity's elapsed.
C8_ElapsedNeverBelowStored ==
    \A p \in Calls :
        (Found(p) /\ (req[p].pc = "dto" \/ (req[p].pc = "check" /\ req[p].op = "stop")))
        => calculateElapsed(req[p].sw, clock) >= req[p].sw.elapsed

\* C9: in every reachable state the stored elapsed of every stopwatch is
\* non-negative.
C9_StoredElapsedNonNegative ==
    \A i \in Ids : Exists(i) => store[i].elapsed >= 0

\* C10: start on a stopwatch read as running fails with InvalidState and
\* changes no row: neither its read nor its guard writes to the store.
C10_StartOnRunningRejected ==
    [][\A p \in Calls :
          /\ (req[p].pc = "idle" /\ req'[p].pc = "check" /\ req'[p].op = "start")
                => store' = store
          /\ (/\ req[p].op = "start" /\ req[p].pc = "check"
              /\ req[p].sw.id # 0 /\ req[p].sw.isRunning
              /\ req'[p] # req[p])
                => (/\ req'[p].pc = "done"
                    /\ req'[p].kind = "InvalidState"
                    /\ store' = store)]_vars

\* A start was rejected with InvalidState and the row still runs from its
\* original start instant, which lies before the current instant.
C10_Witness ==
    \E p \in Calls :
        /\ req[p].pc = "done" /\ req[p].op = "start" /\ req[p].kind = "InvalidState"
        /\ store[req[p].id].isRunning
        /\ store[req[p].id].startTime # NULL
        /\ store[req[p].id].startTime < clock

\* The step of call p that takes it from pc a to pc b.
Step(p, a, b) == req[p].pc = a /\ req'[p].pc = b

\* C11: stop on a stopwatch read as not running fails with InvalidState and
\* changes no row: neither its read nor its guard writes to the store.
C11_StopOnStoppedRejected ==
    [][\A p \in Calls :
          /\ (Step(p, "idle", "check") /\ req'[p].op = "stop") => store' = store
          /\ (/\ req[p].op = "stop" /\ req[p].pc = "check"
              /\ req[p].sw.id # 0 /\ ~req[p].sw.isRunning
              /\ req'[p] # req[p])
                => (/\ req'[p].pc = "done"
                    /\ req'[p].kind = "InvalidState"
                    /\ store' = store)]_vars

\* A stop was rejected with InvalidState on a live stopped stopwatch whose
\* elapsed an update had set to 2.
C11_Witness ==
    \E p \in Calls :
        /\ req[p].pc = "done" /\ req[p].op = "stop" /\ req[p].kind = "InvalidState"
        /\ Live(req[p].id)
        /\ ~store[req[p].id].isRunning
        /\ store[req[p].id].startTime = NULL
        /\ store[req[p].id].elapsed = 2

\* C12: delete on a stopwatch read as running fails with InvalidState and
\* leaves the rows unchanged; delete on one read as stopped marks the row
\* deleted and returns 'ok'; and a list executed once a delete of an
\* identifier has returned 'ok' does not contain that identifier.
C12_DeleteThenListExcludes ==
    [][\A p \in Calls :
          /\ (/\ req[p].op = "delete" /\ req[p].pc = "check"
              /\ req[p].sw.id # 0 /\ req[p].sw.isRunning
              /\ req'[p] # req[p])
                => (/\ req'[p].pc = "done" /\ req'[p].kind = "InvalidState"
                    /\ store' = store)
          /\ (req[p].op = "delete" /\ Step(p, "save", "done"))
                => (req'[p].kind = "ok" /\ store'[req[p].id].deleted)
          /\ (req[p].op = "delete" /\ req[p].pc = "done" /\ req[p].kind = "ok")
                => \A q \in Calls :
                      (Step(q, "idle", "dto") /\ req'[q].op = "list")
                      => \A k \in 1 .. Len(req'[q].rows) :
                            req'[q].rows[k].id # req[p].id]_vars

\* C13: start, stop, update and delete on an identifier without a live row
\* (never created, or soft-deleted) read null, fail with NotFound and
\* change no row.
C13_NotFoundChangesNothing ==
    [][\A p \in Calls :
          /\ (/\ Step(p, "idle", "check") /\ req'[p].op \in Mutators
              /\ ~Live(req'[p].id))
                => (req'[p].sw.id = 0 /\ store' = store)
          /\ (/\ req[p].op \in Mutators /\ req[p].pc = "check"
              /\ req[p].sw.id = 0
              /\ req'[p] # req[p])
                => (/\ req'[p].pc = "done"
                    /\ req'[p].kind = "NotFound"
                    /\ store' = store)]_vars

\* An update of a soft-deleted stopwatch failed with NotFound.
C13_Witness ==
    \E p \in Calls :
        /\ req[p].pc = "done" /\ req[p].op = "update" /\ req[p].kind = "NotFound"
        /\ Exists(req[p].id) /\ store[req[p].id].deleted

\* C14: soft deletion is terminal: a row that is soft-deleted stays
\* soft-deleted, whatever step any call takes next.
C14_DeletedStaysDeleted ==
    [][\A i \in Ids : (Exists(i) /\ store[i].deleted) => store'[i].deleted]_vars

\* C15: the stored isRunning changes only by the save of a start (to true)
\* and the save of a stop (to false); the save of an update and the
\* softDelete of a delete leave the stored isRunning and startTime as they
\* were.
C15_OnlyStartStopToggle ==
    [][/\ \A i \in Ids :
             (Exists(i) /\ store'[i].isRunning # store[i].isRunning)
             => \E p \in Calls :
                   /\ req[p].id = i /\ Step(p, "save", "dto")
                   /\ \/ req[p].op = "start" /\ store'[i].isRunning
                      \/ req[p].op = "stop" /\ ~store'[i].isRunning
       /\ \A p \in Calls :
             (/\ req[p].op \in {"update", "delete"} /\ req[p].pc = "save"
              /\ req'[p].pc # "save")
             => (/\ store'[req[p].id].isRunning = store[req[p].id].isRunning
                 /\ store'[req[p].id].startTime = store[req[p].id].startTime)]_vars

\* C16: the stored elapsed of an existing row changes only by the save of
\* a stop or of an update whose patch carries elapsed.
C16_ElapsedFrame ==
    [][\A i \in Ids :
          (Exists(i) /\ store'[i].elapsed # store[i].elapsed)
          => \E p \in Calls :
                /\ req[p].id = i /\ Step(p, "save", "dto")
                /\ \/ req[p].op = "stop"
                   \/ req[p].op = "update" /\ req[p].patch.hasElapsed]_vars

\* C17: across start then stop the elapsed does not decrease, whatever the
\* clock readings: the elapsed a stop computes is at least the elapsed it
\* read, which is the elapsed stored before the start.
C17_StopNeverDecreasesElapsed ==
    [][\A p \in Calls :
          (req[p].op = "stop" /\ Step(p, "check", "save"))
          => req'[p].sw.elapsed >= req[p].sw.elapsed]_vars

\* C18: the save of an update changes exactly the fields of the stored row
\* that its patch carries: name and elapsed take the patch's values when
\* present and stay as stored otherwise; id, isRunning and startTime stay.
C18_UpdateChangesPatchFieldsOnly ==
    [][\A p \in Calls :
          (req[p].op = "update" /\ Step(p, "save", "dto"))
          => LET old == store[req[p].id]
                 new == store'[req[p].id]
                 patch == req[p].patch
             IN  /\ new.id = old.id
                 /\ new.isRunning = old.isRunning
                 /\ new.startTime = old.startTime
                 /\ new.name = IF patch.hasName THEN patch.name ELSE old.name
                 /\ new.elapsed = IF patch.hasElapsed THEN patch.elapsed
                                  ELSE old.elapsed]_vars

\* C19: every operation uses one clock reading: the view a start returns is
\* computed at the instant the start wrote to startTime.
C19_StartUsesOneClockReading ==
    [][\A p \in Calls :
          (req[p].op = "start" /\ Step(p, "dto", "done"))
          => clock = req[p].sw.startTime]_vars

\* C20: list reads exactly the rows that are not soft-deleted, in strictly
\* ascending id order, and returns for each its id, name and isRunning and
\* its effective elapsed: the stored elapsed when stopped, the stored
\* elapsed plus the floored seconds since startTime when running.
C20_ListViews ==
    [][\A p \in Calls :
          /\ (Step(p, "idle", "dto") /\ req'[p].op = "list")
                => LET rows == req'[p].rows
                   IN  /\ \A i \in Ids : Live(i) <=> \E k \in 1 .. Len(rows) : rows[k].id = i
                       /\ \A k \in 1 .. Len(rows) : rows[k] = store[rows[k].id]
                       /\ \A k \in 1 .. Len(rows) - 1 : rows[k].id < rows[k + 1].id
          /\ (req[p].op = "list" /\ Step(p, "dto", "done"))
                => LET rows == req[p].rows
                       views == req'[p].views
                   IN  /\ req'[p].kind = "ok"
                       /\ Len(views) = Len(rows)
                       /\ \A k \in 1 .. Len(rows) :
                             /\ views[k].id = rows[k].id
                             /\ views[k].name = rows[k].name
                             /\ views[k].isRunning = rows[k].isRunning
                             /\ views[k].elapsed =
                                  IF rows[k].isRunning
                                  THEN rows[k].elapsed
                                       + ((clock - rows[k].startTime) \div MsPerSec)
                                  ELSE rows[k].elapsed]_vars

\* A list returned two views in id order; the second stopwatch is running
\* and its view shows the second that has passed since its start.
C20_Witness ==
    \E p \in Calls :
        /\ req[p].pc = "done" /\ req[p].op = "list" /\ req[p].kind = "ok"
        /\ Len(req[p].views) = 2
        /\ req[p].views[1].id = 1 /\ req[p].views[2].id = 2
        /\ req[p].views[2].isRunning /\ req[p].views[2].elapsed = 1
        /\ store[2].elapsed = 0

\* C21: create inserts exactly one row, with isRunning = false, elapsed = 0
\* and startTime = null, under an identifier no row has (soft-deleted rows
\* included), returns a view with the name and those values, and leaves
\* every existing row as it was.
C21_CreateAddsOneStoppedRow ==
    [][\A p \in Calls :
          /\ (Step(p, "idle", "save") /\ req'[p].op = "create")
                => (store' = store /\ nextId' = nextId)
          /\ (req[p].op = "create" /\ Step(p, "save", "dto"))
                => LET id == req'[p].id
                   IN  /\ id \in Ids /\ ~Exists(id)
                       /\ nextId' = nextId + 1 /\ id < nextId'
                       /\ store'[id] = Stopwatch(id, req[p].sw.name, FALSE, 0, NULL, FALSE)
                       /\ \A j \in Ids \ {id} : store'[j] = store[j]
          /\ (req[p].op = "create" /\ Step(p, "dto", "done"))
                => (/\ req'[p].kind = "ok"
                    /\ req'[p].view = StopwatchDto(req[p].id, req[p].sw.name, 0, FALSE)
                    /\ store' = store /\ nextId' = nextId)]_vars

\* A second create returned its view under identifier 2 while the row of
\* identifier 1 is soft-deleted: that identifier was not taken again.
C21_Witness ==
    \E p \in Calls :
        /\ req[p].pc = "done" /\ req[p].op = "create" /\ req[p].kind = "ok"
        /\ req[p].view = StopwatchDto(2, "a", 0, FALSE)
        /\ store[1].deleted
        /\ store[2] = Stopwatch(2, "a", FALSE, 0, NULL, FALSE)

\* C22: calls on different identifiers are independent: an existing row
\* changes only by the write of a call on its own identifier, the read of
\* a call returns the row of its own identifier, and a step of a start,
\* stop, update or delete on another identifier changes neither a call's
\* state nor the row of that call's identifier.
C22_OtherIdsUntouched ==
    [][/\ \A i \in Ids :
             (Exists(i) /\ store'[i] # store[i])
             => \E p \in Calls :
                   /\ req[p].op \in Mutators /\ req[p].id = i
                   /\ req[p].pc = "save" /\ req'[p].pc # "save"
       /\ \A p \in Calls :
             (Step(p, "idle", "check") /\ req'[p].op \in Mutators)
             => req'[p].sw = IF Live(req'[p].id) THEN store[req'[p].id]
                             ELSE NoStopwatch
       /\ \A p, q \in Calls :
             (/\ p # q /\ InRun(p) /\ req[p].op \in Mutators
              /\ req'[q] # req[q]
              /\ (IF req[q].pc = "idle" THEN req'[q] ELSE req[q]).op \in Mutators
              /\ (IF req[q].pc = "idle" THEN req'[q] ELSE req[q]).id # req[p].id)
             => (/\ req'[p] = req[p]
                 /\ store'[req[p].id] = store[req[p].id])]_vars

\* An update of stopwatch 2 has written its row while a start of
\* stopwatch 1 waits for its own save: row 1 is as it was created.
C22_Witness ==
    \E p, q \in Calls :
        /\ req[p].op = "start" /\ req[p].id = 1 /\ req[p].pc = "save"
        /\ req[q].op = "update" /\ req[q].id = 2 /\ req[q].pc = "dto"
        /\ store[1] = Stopwatch(1, "a", FALSE, 0, NULL, FALSE)
        /\ store[2].name = "b"

\* C24: two concurrent stops of one running stopwatch never count the run
\* twice: each computes its elapsed from the record it read (E, S) as
\* E + floor((now - S) / 1000), whatever the other has stored meanwhile,
\* and the save of each writes exactly that value with isRunning = false
\* and startTime = null, so the final record is that of the last save.
C24_ConcurrentStopsCountOnce ==
    [][\A p, q \in Calls :
          (/\ p # q
           /\ req[p].op = "stop" /\ req[q].op = "stop" /\ req[q].id = req[p].id
           /\ \/ InRun(q) /\ Found(q)
              \/ req[q].pc = "done" /\ req[q].kind = "ok")
          => /\ (Step(p, "check", "save"))
                   => req'[p].sw =
                        [req[p].sw EXCEPT
                            !.elapsed = req[p].sw.elapsed
                                + ((clock - req[p].sw.startTime) \div MsPerSec),
                            !.isRunning = FALSE, !.startTime = NULL]
             /\ (Step(p, "save", "dto"))
                   => (/\ store'[req[p].id].elapsed = req[p].sw.elapsed
                       /\ ~store'[req[p].id].isRunning
                       /\ store'[req[p].id].startTime = NULL)
             /\ (Step(p, "dto", "done"))
                   => (/\ req'[p].kind = "ok"
                       /\ req'[p].view.elapsed = req[p].sw.elapsed
                       /\ store' = store)]_vars

\* Two stops of the stopwatch started at instant 0 both succeeded, each
\* with one second of run in its view, and the stored elapsed is 1, not 2.
C24_Witness ==
    \E p, q \in Calls :
        /\ p # q
        /\ req[p].pc = "done" /\ req[p].op = "stop" /\ req[p].kind = "ok"
        /\ req[q].pc = "done" /\ req[q].op = "stop" /\ req[q].kind = "ok"
        /\ req[q].id = req[p].id
        /\ req[p].view.elapsed = 1 /\ req[q].view.elapsed = 1
        /\ store[req[p].id].elapsed = 1
        /\ ~store[req[p].id].isRunning /\ store[req[p].id].startTime = NULL

\* Start-stop cycles of stopwatch 1 completed so far, in a run of
\* CycleSpec in which the last request received is the create or a stop.
Cycles == (issued - 1) \div 2

\* C23: with the clock in milliseconds, a stop that ends a run of d ms adds
\* floor(d / 1000) to the stored elapsed, discarding less than a second;
\* after n cycles the stored elapsed, in ms, is at most the true total run
\* time and is short of it by less than n seconds.
C23_FloorPerCycle ==
    /\ \A p \in Calls :
          (req[p].op = "stop" /\ req[p].pc = "save")
          => LET d == clock - store[1].startTime
                 added == req[p].sw.elapsed - store[1].elapsed
             IN  /\ d >= 0
                 /\ added = d \div MsPerSec
                 /\ added * MsPerSec <= d
                 /\ d - added * MsPerSec < MsPerSec
    /\ (Exists(1) /\ ~store[1].isRunning /\ issued % 2 = 1)
          => /\ store[1].elapsed * MsPerSec <= clock
             /\ Cycles = 0 => (store[1].elapsed = 0 /\ clock = 0)
             /\ Cycles > 0 => clock - store[1].elapsed * MsPerSec < Cycles * MsPerSec

\* Two cycles of half a second each are over: a full second of run, and
\* the stored elapsed is still 0.
C23_Witness ==
    /\ AllIdle /\ issued = 5
    /\ Live(1) /\ ~store[1].isRunning
    /\ clock = 2 * TickMs
    /\ store[1].elapsed = 0

\* C25: with one call at a time no live stopwatch is stuck: the entity a
\* call reads is the stored row; stop on a running stopwatch, and start and
\* delete on a stopped one, pass their guards, write and return
\* successfully; the stop leaves the row live and stopped and the delete
\* leaves it soft-deleted, so stop then delete always ends in soft-deleted.
C25_NeverStuckSequentially ==
    [][\A p \in Calls :
          /\ (/\ Step(p, "idle", "check") /\ req'[p].op \in Mutators
              /\ Live(req'[p].id))
                => req'[p].sw = store[req'[p].id]
          /\ (/\ req[p].pc = "check" /\ req[p].sw.id # 0
              /\ req'[p] # req[p]
              /\ \/ req[p].op = "stop" /\ store[req[p].id].isRunning
                 \/ req[p].op \in {"start", "delete"} /\ ~store[req[p].id].isRunning)
                => (req'[p].pc = "save" /\ Live(req[p].id))
          /\ (req[p].op = "stop" /\ Step(p, "save", "dto"))
                => (Live(req[p].id) /\ ~store'[req[p].id].deleted
                    /\ ~store'[req[p].id].isRunning)
          /\ (req[p].op = "start" /\ Step(p, "save", "dto"))
                => (~store'[req[p].id].deleted /\ store'[req[p].id].isRunning)
          /\ (req[p].op = "delete" /\ req[p].pc = "save" /\ req'[p] # req[p])
                => (/\ req'[p].pc = "done" /\ req'[p].kind = "ok"
                    /\ store'[req[p].id].deleted)
          /\ (req[p].op \in {"start", "stop"} /\ req[p].pc = "dto" /\ req'[p] # req[p])
                => (req'[p].pc = "done" /\ req'[p].kind = "ok")]_vars

\* Create, start, stop after one second, delete: four requests, and the
\* stopwatch that was running is soft-deleted with its second stored.
C25_Witness ==
    \E p \in Calls :
        /\ req[p].pc = "done" /\ req[p].op = "delete" /\ req[p].kind = "ok"
        /\ issued = 4
        /\ store[req[p].id].deleted
        /\ store[req[p].id].elapsed = 1
        /\ ~store[req[p].id].isRunning

====
